---- MODULE Spec2Model ----
(***************************************************************************)
(* GeoAwareGPT: the agent turn cycle (agents.py, class Agent) and the tool *)
(* registry with its batch dispatch (ToolHandler.py, class ToolHandler).   *)
(*                                                                         *)
(* One Agent owns a transcript (messages), an image store (images) and a   *)
(* tool registry (tools).  The caller's operations (set_system_prompt,     *)
(* add_user_message, add_input_image, add_tool) are single steps.  A turn  *)
(* (agent_loop) is a sequence of steps, cut where the coroutine awaits:    *)
(* the model call (get_assistant_response), the parse (extract_info, with  *)
(* the short circuit on an empty list), for each iteration of handle_tool  *)
(* the start of the invocation and its end, the fold with the return, and  *)
(* the hand-over of the result to the caller.  One Agent serves one        *)
(* conversation from a single thread of control, so the caller's           *)
(* operations happen between turns, and the caller runs a turn when the    *)
(* transcript ends with a message for the model to answer.                 *)
(*                                                                         *)
(* Spec is the conversation.  SpecParse applies extract_info, from the     *)
(* point of agent_loop where the reply is in hand, to a wider set of       *)
(* replies and image stores than a conversation of Spec goes through.      *)
(***************************************************************************)
EXTENDS Integers, Sequences, FiniteSets, TLC

\* ------------------------------------------------------------------ bounds
MaxImages == 1      \* the caller uploads at most this many images
MaxIdx == 2         \* the largest N the model writes in "$image_N$"
MaxCalls == 2       \* the longest tool_calls list of a reply
MaxMsgs == 3        \* the conversation goes on while the transcript is shorter

\* ------------------------------------------------------- python dictionaries
\* A dict is the sequence of its items, in insertion order.
DictKeys(d) == {d[k].key : k \in 1..Len(d)}

DictGet(d, key) == d[CHOOSE k \in 1..Len(d) : d[k].key = key].val

\* Mutant: an existing key keeps its value (d.setdefault(key, val)).
DictSet_setdefault(d, key, val) ==
    IF key \in DictKeys(d) THEN d ELSE Append(d, [key |-> key, val |-> val])

\* d[key] = val: an existing key keeps its place, a new key goes last.
DictSet(d, key, val) ==
    IF key \in DictKeys(d)
    THEN [k \in 1..Len(d) |-> IF d[k].key = key THEN [key |-> key, val |-> val] ELSE d[k]]
    ELSE Append(d, [key |-> key, val |-> val])

\* ------------------------------------------------------------------- tools
\* schema.BaseTool objects the caller may register: name, tool_type and the
\* identity (id) of the implementation behind run.
ToolPool ==
    { [cls |-> "BaseTool", name |-> "a", tool_type |-> "ORD", id |-> 1],
      [cls |-> "BaseTool", name |-> "a", tool_type |-> "AUA", id |-> 2],
      [cls |-> "BaseTool", name |-> "b", tool_type |-> "ORD", id |-> 3] }

\* An object that is no BaseTool.
NotATool == [cls |-> "object", name |-> "a", tool_type |-> "ORD", id |-> 4]

Names == {"a", "b"}

\* ToolHandler.__init__: {tool.name: tool for tool in tools}
ToolHandler_init(tool_list) ==
    [n \in {tool_list[k].name : k \in 1..Len(tool_list)} |->
        tool_list[CHOOSE k \in 1..Len(tool_list) :
                     /\ tool_list[k].name = n
                     /\ \A j \in (k+1)..Len(tool_list) : tool_list[j].name # n]]

\* validate(tool) of add_tool: "TypeError", or the tool (with a warning when
\* the name is already a key of the registry).
validate_raises(tool) == tool.cls # "BaseTool"

validate_warns(reg, tool) == tool.name \in DOMAIN reg

\* self.tools[tool.name] = tool
RegistryPut(reg, tool) ==
    [n \in DOMAIN reg \cup {tool.name} |-> IF n = tool.name THEN tool ELSE reg[n]]

\* self.tools.update({_tool.name: validate(_tool) for _tool in tool}): the
\* comprehension is evaluated first, in order, on the registry as it was.
RECURSIVE RegistryUpdate(_, _)
RegistryUpdate(reg, items) ==
    IF items = <<>> THEN reg
    ELSE RegistryUpdate(RegistryPut(reg, Head(items)), Tail(items))

\* The validate calls made before the first one that raises (all, if none).
ValidatedPrefix(items) ==
    IF \E k \in 1..Len(items) : validate_raises(items[k])
    THEN SubSeq(items, 1, (CHOOSE k \in 1..Len(items) :
                             /\ validate_raises(items[k])
                             /\ \A j \in 1..(k-1) : ~validate_raises(items[j])) - 1)
    ELSE items

\* Mutant: a name that is already registered keeps its tool.
add_tool_first_wins(reg, arg) ==
    LET items == arg.items
        bad == \E k \in 1..Len(items) : validate_raises(items[k])
        seen == ValidatedPrefix(items)
        warns == Cardinality({k \in 1..Len(seen) : validate_warns(reg, seen[k])})
        new == RegistryUpdate(reg, items)
    IN  IF bad
        THEN [tools |-> reg, raised |-> "TypeError", warns |-> IF arg.single THEN 0 ELSE warns]
        ELSE [tools |-> [n \in DOMAIN new |-> IF n \in DOMAIN reg THEN reg[n] ELSE new[n]],
              raised |-> "", warns |-> warns]

\* ToolHandler.add_tool(tool): arg.single tells a BaseTool|other object from a
\* sequence of objects.  The result is the registry after the call, the
\* exception raised ("" for none) and the number of warnings emitted.
add_tool(reg, arg) ==
    LET items == arg.items
        bad == \E k \in 1..Len(items) : validate_raises(items[k])
        seen == ValidatedPrefix(items)
        warns == Cardinality({k \in 1..Len(seen) : validate_warns(reg, seen[k])})
    IN  IF arg.single /\ bad
        \* not a BaseTool: the else branch iterates over it
        THEN [tools |-> reg, raised |-> "TypeError", warns |-> 0]
        ELSE IF bad
        THEN [tools |-> reg, raised |-> "TypeError", warns |-> warns]
        ELSE [tools |-> RegistryUpdate(reg, items), raised |-> "", warns |-> warns]

\* ------------------------------------------------------- the model's reply
\* A JSON scalar as the model writes it.  t = "num": a number; "dollar": the
\* string "$image_n$"; "angle": the string "<image_n>"; "angle_tail": a string
\* that starts with "<image_n>" and goes on; "str": any other string.  After
\* resolution t = "Image" and n is the handle.
Atom(t, n) == [t |-> t, n |-> n]

Image(handle) == Atom("Image", handle)

\* The values the model writes for an argument.
ArgVals ==
    {Atom("num", 1), Atom("str", 0), Atom("angle", 0), Atom("angle_tail", 0)}
        \cup {Atom("dollar", n) : n \in 0..MaxIdx}

\* The args objects: a dict is the sequence of its values, in the order of the
\* keys "arg1", "arg2".
ArgDicts ==
    {<<>>} \cup {<<v>> : v \in ArgVals}
           \cup {<<Atom("dollar", 0), v>> : v \in {Atom("num", 1), Atom("dollar", MaxIdx)}}

\* One entry of tool_calls: {"name": ..., "args": {...}}; has_args = FALSE is
\* an entry without the "args" key.
ToolCall(name, has_args, args) == [name |-> name, has_args |-> has_args, args |-> args]

Calls ==
    {ToolCall(n, TRUE, a) : n \in Names, a \in ArgDicts} \cup {ToolCall("a", FALSE, <<>>)}

RECURSIVE SeqsUpTo(_, _)
SeqsUpTo(S, n) ==
    IF n = 0 THEN {<<>>}
    ELSE LET shorter == SeqsUpTo(S, n - 1)
         IN  shorter \cup {Append(q, x) : q \in {r \in shorter : Len(r) = n - 1}, x \in S}

\* The reply text.  kind = "garbage": not JSON; "array": JSON, but no object;
\* "object": a JSON object with the keys `keys`.
Reply(kind, keys, calls, audio) ==
    [kind |-> kind, keys |-> keys, tool_calls |-> calls, audio |-> audio]

AudioVals == {Atom("str", 0), Atom("dollar", 0)}

NoAudio == Atom("str", 0)

\* The replies that are no JSON object with a tool_calls key.
OtherReplies ==
    { Reply("garbage", {}, <<>>, NoAudio), Reply("array", {}, <<>>, NoAudio),
      Reply("object", {"audio"}, <<>>, NoAudio) }

\* The replies with a tool_calls list drawn from the calls C.
RepliesOver(C) ==
    {Reply("object", {"tool_calls", "audio"}, c, a) :
        c \in SeqsUpTo(C, MaxCalls), a \in AudioVals}
        \cup {Reply("object", {"tool_calls"}, c, NoAudio) : c \in SeqsUpTo(C, MaxCalls)}

\* The replies the parser is applied to.
Replies == OtherReplies \cup RepliesOver(Calls)

\* The replies the model gives in a conversation.
AgentCalls ==
    { ToolCall("a", TRUE, <<>>), ToolCall("b", TRUE, <<>>),
      ToolCall("a", TRUE, <<Atom("dollar", 0)>>) }

AgentReplies ==
    OtherReplies
        \cup {r \in RepliesOver(AgentCalls) : r.audio = NoAudio}
        \cup {Reply("object", {"tool_calls", "audio"}, <<ToolCall("a", FALSE, <<>>)>>, NoAudio)}

\* ------------------------------------------------------------ extract_info
\* re.sub(r'"\$image_(?P<num>[0-9]+)\$"', '"<image_\g<num>>"', response): every
\* string literal that is exactly $image_N$ becomes <image_N>, wherever it
\* stands in the text.
SubAtom(a) == IF a.t = "dollar" THEN Atom("angle", a.n) ELSE a

SubArgs(args) == [k \in 1..Len(args) |-> SubAtom(args[k])]

re_sub(response) ==
    Reply(response.kind, response.keys,
          [c \in 1..Len(response.tool_calls) |->
              ToolCall(response.tool_calls[c].name, response.tool_calls[c].has_args,
                       SubArgs(response.tool_calls[c].args))],
          SubAtom(response.audio))

\* isinstance(val, str) and re.match(r'<image_(?P<num>[0-9]+)>', val): match
\* anchors at the start of the string only.
re_match(val) == val.t \in {"angle", "angle_tail"}

\* self.images[int(img.group('num'))]
IndexInRange(imgs, val) == val.n < Len(imgs)

\* Mutant: the index is taken as counting from 1, images[N - 1].
ResolveArgs_from_one(imgs, args) ==
    [k \in 1..Len(args) |->
        IF re_match(args[k])
        THEN Image(imgs[IF args[k].n = 0 THEN Len(imgs) ELSE args[k].n])
        ELSE args[k]]

\* args[arg] = self.images[...] for every matching value of one call.
ResolveArgs(imgs, args) ==
    [k \in 1..Len(args) |->
        IF re_match(args[k]) THEN Image(imgs[args[k].n + 1]) ELSE args[k]]

\* What the loop body of extract_info raises on one call ("" for nothing).
CallRaises(imgs, call) ==
    IF ~call.has_args THEN "KeyError"
    ELSE IF \E k \in 1..Len(call.args) :
                re_match(call.args[k]) /\ ~IndexInRange(imgs, call.args[k])
    THEN "IndexError"
    ELSE ""

\* The info payload: the parsed object without tool_calls.
Info(keys, audio) == [keys |-> keys, audio |-> audio]

NoInfo == Info({}, Atom("str", 0))

Parsed(raised, calls, info) == [raised |-> raised, tools |-> calls, info |-> info]

\* Mutant: tool_calls is read with info['tool_calls'] and stays in info.
extract_info_keeps_key(imgs, response) ==
    LET text == re_sub(response)
        calls == text.tool_calls
        failing == {c \in 1..Len(calls) : CallRaises(imgs, calls[c]) # ""}
    IN  IF text.kind = "garbage" THEN Parsed("ValueError", <<>>, NoInfo)
        ELSE IF text.kind = "array" THEN Parsed("TypeError", <<>>, NoInfo)
        ELSE IF "tool_calls" \notin text.keys THEN Parsed("KeyError", <<>>, NoInfo)
        ELSE IF failing # {}
        THEN Parsed(CallRaises(imgs, calls[CHOOSE c \in failing : \A d \in failing : c <= d]),
                    <<>>, NoInfo)
        ELSE Parsed("",
                    [c \in 1..Len(calls) |->
                        ToolCall(calls[c].name, TRUE, ResolveArgs(imgs, calls[c].args))],
                    Info(text.keys, text.audio))

\* Agent.extract_info(response), reading self.images = imgs.
extract_info(imgs, response) ==
    LET text == re_sub(response)
        calls == text.tool_calls
        failing == {c \in 1..Len(calls) : CallRaises(imgs, calls[c]) # ""}
    IN  IF text.kind = "garbage" THEN Parsed("ValueError", <<>>, NoInfo)
        ELSE IF text.kind = "array" THEN Parsed("TypeError", <<>>, NoInfo)
        ELSE IF "tool_calls" \notin text.keys THEN Parsed("KeyError", <<>>, NoInfo)
        ELSE IF failing # {}
        THEN Parsed(CallRaises(imgs, calls[CHOOSE c \in failing : \A d \in failing : c <= d]),
                    <<>>, NoInfo)
        ELSE Parsed("",
                    [c \in 1..Len(calls) |->
                        ToolCall(calls[c].name, TRUE, ResolveArgs(imgs, calls[c].args))],
                    Info(text.keys \ {"tool_calls"}, text.audio))

\* Mutant: the image a placeholder names is taken out of the store
\* (self.images.pop(...)).
images_after_extract_info_pop(imgs, response) ==
    IF extract_info(imgs, response).raised = "" /\ imgs # <<>>
    THEN SubSeq(imgs, 1, Len(imgs) - 1)
    ELSE imgs

\* self.images when extract_info is over: the method only reads the store.
images_after_extract_info(imgs, response) == imgs

\* ---------------------------------------------------------- the transcript
\* schema.ChatBuilder: the chat is a list of role-tagged messages and each of
\* system_message, user_message, assistant_message appends one.
Message(role, content) == [role |-> role, content |-> content]

system_message(chat, text) == Append(chat, Message("system", text))

user_message(chat, text) == Append(chat, Message("user", text))

assistant_message(chat, text) == Append(chat, Message("assistant", text))

\* prompt + "\n" + str(self.states[0])
SystemPrompt == [prompt |-> "prompt", state |-> "states[0]"]

\* The text handed to add_user_message, and what reaches the chat: the text
\* alone, or the text followed by the list image_0, image_1, ... of the whole
\* image store and the hint on how to pass an image.
UserText(body, uploaded) == [body |-> body, uploaded |-> uploaded]

\* Mutant: the else is missing, and with images the bare text follows.
add_user_message_twice(chat, imgs, message) ==
    IF imgs # <<>>
    THEN user_message(user_message(chat, UserText(message, [k \in 1..Len(imgs) |-> k - 1])),
                      UserText(message, <<>>))
    ELSE user_message(chat, UserText(message, <<>>))

\* Mutant: the chat is started over with the message.
add_user_message_restart(chat, imgs, message) ==
    IF imgs # <<>>
    THEN user_message(<<>>, UserText(message, [k \in 1..Len(imgs) |-> k - 1]))
    ELSE user_message(<<>>, UserText(message, <<>>))

\* Mutant: the text goes to the chat as it is, images or not.
add_user_message_plain(chat, imgs, message) == user_message(chat, UserText(message, <<>>))

\* Agent.add_user_message(message), reading self.images = imgs.
add_user_message(chat, imgs, message) ==
    IF imgs # <<>>
    THEN user_message(chat, UserText(message, [k \in 1..Len(imgs) |-> k - 1]))
    ELSE user_message(chat, UserText(message, <<>>))

\* ----------------------------------------------------------- tool outputs
\* What a tool's run hands back or raises.  k = "str": a plain value, v its
\* str(); "image": a ToolImageOutput with .image; "custom": a ToolCustomOutput
\* with .output = v; "Exception" / "BaseException": run raises an Exception, or
\* a BaseException that is no Exception (KeyboardInterrupt, CancelledError).
Output(k, v, image) == [k |-> k, v |-> v, image |-> image]

Sentinel == Output("str", "An error occurred while running the tool.", 0)

True == Output("bool", "True", 0)

\* The image a tool produces is a new handle, told apart from the uploads.
RunOutcomes(tool) ==
    { Output("str", "text", 0), Output("image", "", 10 + tool.id),
      Output("custom", "custom text", 0),
      Output("Exception", "", 0), Output("BaseException", "", 0) }

\* ------------------------------------------------------------- handle_tool
Step(raised, results, ran) == [raised |-> raised, tool_results |-> results, ran |-> ran]

\* Mutant: the except clause re-raises whatever DEBUG says.
handle_tool_iteration_reraise(reg, debug, results, call, out) ==
    IF call.name \notin DOMAIN reg
    THEN Step("KeyError", results, FALSE)
    ELSE LET flagged == IF reg[call.name].tool_type = "AUA"
                        THEN DictSet(results, "AUA", True)
                        ELSE results
         IN  IF out.k \in {"Exception", "BaseException"}
             THEN Step(out.k, flagged, TRUE)
             ELSE Step("", DictSet(flagged, call.name, out), TRUE)

\* Mutant: the AUA flag is raised after the invocation, when it succeeded.
handle_tool_iteration_late_flag(reg, debug, results, call, out) ==
    IF call.name \notin DOMAIN reg
    THEN Step("KeyError", results, FALSE)
    ELSE LET flag(r) == IF reg[call.name].tool_type = "AUA"
                        THEN DictSet(r, "AUA", True)
                        ELSE r
         IN  IF out.k = "BaseException" THEN Step("BaseException", results, TRUE)
             ELSE IF out.k = "Exception"
             THEN IF debug
                  THEN Step("Exception", results, TRUE)
                  ELSE Step("", DictSet(results, call.name, Sentinel), TRUE)
             ELSE Step("", DictSet(flag(results), call.name, out), TRUE)

\* Mutant: the lookup stands inside the try, and an unknown name is recorded
\* with the sentinel like a tool that failed.
handle_tool_iteration_unknown_absorbed(reg, debug, results, call, out) ==
    IF call.name \notin DOMAIN reg
    THEN Step("", DictSet(results, call.name, Sentinel), TRUE)
    ELSE LET flagged == IF reg[call.name].tool_type = "AUA"
                        THEN DictSet(results, "AUA", True)
                        ELSE results
         IN  IF out.k = "BaseException" THEN Step("BaseException", flagged, TRUE)
             ELSE IF out.k = "Exception"
             THEN IF debug
                  THEN Step("Exception", flagged, TRUE)
                  ELSE Step("", DictSet(flagged, call.name, Sentinel), TRUE)
             ELSE Step("", DictSet(flagged, call.name, out), TRUE)

\* Mutant: the except clause keeps the sentinel whatever DEBUG says.
handle_tool_iteration_absorb(reg, debug, results, call, out) ==
    IF call.name \notin DOMAIN reg
    THEN Step("KeyError", results, FALSE)
    ELSE LET flagged == IF reg[call.name].tool_type = "AUA"
                        THEN DictSet(results, "AUA", True)
                        ELSE results
         IN  IF out.k = "BaseException" THEN Step("BaseException", flagged, TRUE)
             ELSE IF out.k = "Exception"
             THEN Step("", DictSet(flagged, call.name, Sentinel), TRUE)
             ELSE Step("", DictSet(flagged, call.name, out), TRUE)

\* One iteration of the loop of ToolHandler.handle_tool on llm_output[i] = call,
\* where the tool's run ends as `out`: what is raised out of handle_tool (""
\* for nothing), tool_results after it, and whether run was invoked.
handle_tool_iteration(reg, debug, results, call, out) ==
    IF call.name \notin DOMAIN reg
    THEN Step("KeyError", results, FALSE)
    ELSE LET flagged == IF reg[call.name].tool_type = "AUA"
                        THEN DictSet(results, "AUA", True)
                        ELSE results
         IN  IF out.k = "BaseException" THEN Step("BaseException", flagged, TRUE)
             ELSE IF out.k = "Exception"
             THEN IF debug
                  THEN Step("Exception", flagged, TRUE)
                  ELSE Step("", DictSet(flagged, call.name, Sentinel), TRUE)
             ELSE Step("", DictSet(flagged, call.name, out), TRUE)

\* ------------------------------------------------------ agent_loop: folding
Folded(imgs, display, text, custom) ==
    [images |-> imgs, display |-> display, text |-> text, custom |-> custom]

\* Mutant: an ImageOutput is recorded but its image is not stored.
FoldItem_no_append(acc, item) ==
    IF item.val.k = "image"
    THEN Folded(acc.images,
                DictSet(acc.display, item.key, item.val),
                DictSet(acc.text, item.key, "Image shown to user"),
                acc.custom)
    ELSE IF item.val.k = "custom"
    THEN Folded(acc.images, acc.display,
                DictSet(acc.text, item.key, item.val.v),
                DictSet(acc.custom, item.key, item.val))
    ELSE Folded(acc.images, acc.display,
                DictSet(acc.text, item.key, item.val.v), acc.custom)

\* The body of `for key in tool_results` for one item.
FoldItem(acc, item) ==
    IF item.val.k = "image"
    THEN Folded(Append(acc.images, item.val.image),
                DictSet(acc.display, item.key, item.val),
                DictSet(acc.text, item.key, "Image shown to user"),
                acc.custom)
    ELSE IF item.val.k = "custom"
    THEN Folded(acc.images, acc.display,
                DictSet(acc.text, item.key, item.val.v),
                DictSet(acc.custom, item.key, item.val))
    ELSE Folded(acc.images, acc.display,
                DictSet(acc.text, item.key, item.val.v), acc.custom)

RECURSIVE FoldFrom(_, _)
FoldFrom(acc, results) ==
    IF results = <<>> THEN acc
    ELSE FoldFrom(FoldItem(acc, Head(results)), Tail(results))

\* Lines 161-173 of agent_loop.
fold(imgs, results) == FoldFrom(Folded(imgs, <<>>, <<>>, <<>>), results)

\* str({"tool_results": json.dumps(tool_results_text)})
ToolResultsText(text) == [tool_results |-> [json |-> text]]

\* What agent_loop hands to its caller: the 5-tuple, or the exception raised
\* and the step that raised it (raised = "" for a return).
Returned(display, text, aua, audio, custom) ==
    [raised |-> "", at |-> "", display |-> display, text |-> text, AUA |-> aua,
     audio |-> audio, custom |-> custom]

Raised(exc, at) ==
    [raised |-> exc, at |-> at, display |-> <<>>, text |-> <<>>, AUA |-> FALSE,
     audio |-> Atom("str", 0), custom |-> <<>>]

NoResult == Raised("none", "")

\* Mutant: a missing audio field is read as the empty text
\* (response.get("audio", "")).
ReturnTuple_default(display, text, aua, info, custom) ==
    IF "audio" \in info.keys
    THEN Returned(display, text, aua, info.audio, custom)
    ELSE Returned(display, text, aua, Atom("str", 0), custom)

\* return ..., response["audio"], ...
ReturnTuple(display, text, aua, info, custom) ==
    IF "audio" \in info.keys
    THEN Returned(display, text, aua, info.audio, custom)
    ELSE Raised("KeyError", "return")

\* ------------------------------------------------------------------- state
VARIABLES
    DEBUG,          \* ToolHandler.DEBUG, the module's flag
    tools,          \* ToolHandler.tools: name -> tool
    messages,       \* Agent.messages.chat
    images,         \* Agent.images
    pc,             \* where agent_loop stands: idle, parsing, dispatching,
                    \* awaiting (a tool), done
    response,       \* agent_loop: the raw reply of the model
    tool_calls,     \* agent_loop: the parsed tool_calls (llm_output of handle_tool)
    info,           \* agent_loop: the parsed reply without tool_calls
    i,              \* handle_tool: the loop index (from 1)
    tool_results,   \* handle_tool: the result dict
    result,         \* what agent_loop handed (or raised) to its caller
    invoked,        \* history: the run invocations of this turn that ended, in order
    started,        \* history: the indices of the calls whose invocation began
    messages0,      \* history: the transcript when the turn began
    images0,        \* history: the image store when the turn began
    latest,         \* history: name -> id of the tool registered last under it
    last_add        \* history: the add_tool call, when it is the latest operation

vars == <<DEBUG, tools, messages, images, pc, response, tool_calls, info, i,
          tool_results, result, invoked, started, messages0, images0, latest, last_add>>

turn == <<pc, response, tool_calls, info, i, tool_results, result, invoked,
          started, messages0, images0>>

NoReply == Reply("none", {}, <<>>, Atom("str", 0))

NoAdd == [called |-> FALSE, raised |-> "", warns |-> 0]

\* states[0].tools, the tools the Agent is built with.
InitialTools == {<<>>, <<CHOOSE t \in ToolPool : t.id = 1>>}

Ids(reg) == [n \in Names |-> IF n \in DOMAIN reg THEN reg[n].id ELSE 0]

Init ==
    /\ DEBUG \in BOOLEAN
    /\ \E tool_list \in InitialTools :
          /\ tools = ToolHandler_init(tool_list)
          /\ latest = Ids(ToolHandler_init(tool_list))
    /\ messages = <<>>
    /\ images = <<>>
    /\ pc = "idle"
    /\ response = NoReply
    /\ tool_calls = <<>>
    /\ info = NoInfo
    /\ i = 0
    /\ tool_results = <<>>
    /\ result = NoResult
    /\ invoked = <<>>
    /\ started = <<>>
    /\ messages0 = <<>>
    /\ images0 = <<>>
    /\ last_add = NoAdd

\* ------------------------------------------------- the caller's operations
\* The conversation goes on while a whole turn (the reply and the tool
\* results) still fits in the transcript.
Going == Len(messages) + 2 <= MaxMsgs

\* Agent.set_system_prompt(prompt)
SetSystemPrompt ==
    /\ pc = "idle"
    /\ Going
    /\ messages' = system_message(messages, SystemPrompt)
    /\ last_add' = NoAdd
    /\ UNCHANGED <<DEBUG, tools, images, turn, latest>>

\* Agent.add_user_message(message), called by the caller
AddUserMessage ==
    /\ pc = "idle"
    /\ Going
    /\ messages' = add_user_message(messages, images, "hello")
    /\ last_add' = NoAdd
    /\ UNCHANGED <<DEBUG, tools, images, turn, latest>>

\* Agent.add_input_image(image): the upload is a new handle.
add_input_image(imgs, image) == Append(imgs, image)

AddInputImage ==
    /\ pc = "idle"
    /\ Going
    /\ Cardinality({k \in 1..Len(images) : images[k] < 10}) < MaxImages
    /\ images' = add_input_image(images, Len(images) + 1)
    /\ last_add' = NoAdd
    /\ UNCHANGED <<DEBUG, tools, messages, turn, latest>>

\* What the caller passes to add_tool: one object, or a sequence of objects.
AddArgs ==
    {[single |-> TRUE, items |-> <<t>>] : t \in ToolPool \cup {NotATool}}
        \cup {[single |-> FALSE, items |-> <<>>]}
        \cup {[single |-> FALSE, items |-> <<p[1], p[2]>>] :
                 p \in {q \in ToolPool \X (ToolPool \cup {NotATool}) : q[1] # q[2]}}

\* The ids registered last, computed from the argument alone.
RECURSIVE LatestAfter(_, _)
LatestAfter(ids, items) ==
    IF items = <<>> THEN ids
    ELSE LatestAfter([ids EXCEPT ![Head(items).name] = Head(items).id], Tail(items))

\* Agent.add_tool(tool) -> ToolHandler.add_tool(tool)
AddToolWith(arg) ==
    /\ pc = "idle"
    /\ Going
    /\ LET r == add_tool(tools, arg)
       IN  /\ tools' = r.tools
           /\ last_add' = [called |-> TRUE, raised |-> r.raised, warns |-> r.warns]
    /\ latest' = IF \E k \in 1..Len(arg.items) : arg.items[k].cls # "BaseTool"
                 THEN latest
                 ELSE LatestAfter(latest, arg.items)
    /\ UNCHANGED <<DEBUG, messages, images, turn>>

AddTool == \E arg \in AddArgs : AddToolWith(arg)

\* ------------------------------------------------------------ agent_loop
\* What self.model.generate hands back: nothing, a completion without
\* choices, or a completion whose first choice holds the reply.
Completion(choices, content) == [choices |-> choices, content |-> content]

Completions ==
    {Completion(0, NoReply)} \cup {Completion(1, r) : r \in AgentReplies}

\* The caller runs a turn to have a message answered: the transcript ends
\* with a system or user message (the tool results of the last turn among
\* them).
Asked == messages # <<>> /\ messages[Len(messages)].role # "assistant"

\* What get_assistant_response leaves: the exception raised ("" for none),
\* the chat and the answer it returns.
Answered(raised, chat, answer) == [raised |-> raised, chat |-> chat, answer |-> answer]

\* Mutant: the answer is returned without being added to the chat.
get_assistant_response_no_append(chat, completion) ==
    IF completion.choices > 0
    THEN Answered("", chat, completion.content)
    ELSE Answered("RuntimeError", chat, NoReply)

\* Mutant: without choices an assistant message is added before the raise.
get_assistant_response_logs_failure(chat, completion) ==
    IF completion.choices > 0
    THEN Answered("", assistant_message(chat, completion.content), completion.content)
    ELSE Answered("RuntimeError", assistant_message(chat, NoReply), NoReply)

\* Agent.get_assistant_response(), on the completion the model gave.
get_assistant_response(chat, completion) ==
    IF completion.choices > 0
    THEN Answered("", assistant_message(chat, completion.content), completion.content)
    ELSE Answered("RuntimeError", chat, NoReply)

\* response = await self.get_assistant_response(), the first step of
\* agent_loop.
GetAssistantResponse ==
    /\ pc = "idle"
    /\ Going
    /\ Asked
    /\ messages0' = messages
    /\ images0' = images
    /\ last_add' = NoAdd
    /\ \E completion \in Completions :
          LET got == get_assistant_response(messages, completion)
          IN  /\ messages' = got.chat
              /\ response' = got.answer
              /\ IF got.raised = ""
                 THEN /\ pc' = "parsing"
                      /\ result' = NoResult
                 ELSE /\ result' = Raised(got.raised, "get_assistant_response")
                      /\ pc' = "done"
    /\ UNCHANGED <<DEBUG, tools, images, tool_calls, info, i, tool_results, invoked,
                   started, latest>>

\* Mutant: the empty list is dispatched like any other.
not_tool_calls_never(calls) == FALSE

\* `if not tool_calls`
not_tool_calls(calls) == calls = <<>>

\* tool_calls, response = self.extract_info(response), and the short circuit
\* of agent_loop on an empty list.
ExtractInfo ==
    /\ pc = "parsing"
    /\ LET parsed == extract_info(images, response)
       IN  IF parsed.raised # ""
           THEN /\ result' = Raised(parsed.raised, "extract_info")
                /\ pc' = "done"
                /\ UNCHANGED <<tool_calls, info, i>>
           ELSE /\ tool_calls' = parsed.tools
                /\ info' = parsed.info
                /\ IF not_tool_calls(parsed.tools)
                   THEN /\ result' = ReturnTuple(<<>>, <<>>, FALSE, parsed.info, <<>>)
                        /\ pc' = "done"
                        /\ i' = i
                   ELSE /\ pc' = "dispatching"
                        /\ i' = 1
                        /\ result' = result
    /\ images' = images_after_extract_info(images, response)
    /\ UNCHANGED <<DEBUG, tools, messages, response, tool_results, invoked, started,
                   messages0, images0, latest, last_add>>

Invocation(call, tool, out) ==
    [name |-> call.name, id |-> tool.id, args |-> call.args, out |-> out]

\* Mutant: the invocation is started as a task and the loop goes on.
await_call_tool_detached(k) == [pc |-> "dispatching", i |-> k + 1]

\* tool_output = await self.call_tool(tool_name, args): handle_tool is
\* suspended in iteration k until the invocation ends.
await_call_tool(k) == [pc |-> "awaiting", i |-> k]

\* An iteration of handle_tool's loop up to the invocation: the lookup, the
\* AUA flag and the start of call_tool.  tool_results is as the iteration
\* leaves it while the call has not returned.
CallTool ==
    /\ pc = "dispatching"
    /\ i <= Len(tool_calls)
    /\ LET call == tool_calls[i]
           unreturned == Output("BaseException", "", 0)
           lookup == handle_tool_iteration(tools, DEBUG, tool_results, call, unreturned)
       IN  IF lookup.ran
           THEN /\ tool_results' = lookup.tool_results
                /\ started' = Append(started, i)
                /\ pc' = await_call_tool(i).pc
                /\ i' = await_call_tool(i).i
                /\ result' = result
           ELSE /\ result' = Raised(lookup.raised, "handle_tool")
                /\ pc' = "done"
                /\ UNCHANGED <<i, tool_results, started>>
    /\ UNCHANGED <<DEBUG, tools, messages, images, response, tool_calls, info, invoked,
                   messages0, images0, latest, last_add>>

\* The invocation ends, with an output or an exception, and the iteration
\* records it (or handle_tool raises).
ToolDone ==
    /\ pc = "awaiting"
    /\ LET call == tool_calls[i]
       IN  \E out \in RunOutcomes(tools[call.name]) :
              LET step == handle_tool_iteration(tools, DEBUG, tool_results, call, out)
              IN  /\ invoked' = Append(invoked, Invocation(call, tools[call.name], out))
                  /\ IF step.raised # ""
                     THEN /\ result' = Raised(step.raised, "handle_tool")
                          /\ pc' = "done"
                          /\ UNCHANGED <<i, tool_results>>
                     ELSE /\ tool_results' = step.tool_results
                          /\ i' = i + 1
                          /\ pc' = "dispatching"
                          /\ result' = result
    /\ UNCHANGED <<DEBUG, tools, messages, images, response, tool_calls, info, started,
                   messages0, images0, latest, last_add>>

\* handle_tool returns tool_results; agent_loop folds them, appends the
\* tool-results message and returns.
FoldResults ==
    /\ pc = "dispatching"
    /\ i > Len(tool_calls)
    /\ LET AUA == IF "AUA" \in DictKeys(tool_results)
                  THEN DictGet(tool_results, "AUA") = True
                  ELSE FALSE
           f == fold(images, tool_results)
       IN  /\ images' = f.images
           /\ messages' = add_user_message(messages, f.images, ToolResultsText(f.text))
           /\ result' = ReturnTuple(f.display, f.text, AUA, info, f.custom)
    /\ pc' = "done"
    /\ UNCHANGED <<DEBUG, tools, response, tool_calls, info, i, tool_results, invoked,
                   started, messages0, images0, latest, last_add>>

\* The caller has the result (or the exception); the turn's locals die.
FinishTurn ==
    /\ pc = "done"
    /\ pc' = "idle"
    /\ response' = NoReply
    /\ tool_calls' = <<>>
    /\ info' = NoInfo
    /\ i' = 0
    /\ tool_results' = <<>>
    /\ result' = NoResult
    /\ invoked' = <<>>
    /\ started' = <<>>
    /\ messages0' = <<>>
    /\ images0' = <<>>
    /\ UNCHANGED <<DEBUG, tools, messages, images, latest, last_add>>

Next ==
    \/ SetSystemPrompt
    \/ AddUserMessage
    \/ AddInputImage
    \/ AddTool
    \/ GetAssistantResponse
    \/ ExtractInfo
    \/ CallTool
    \/ ToolDone
    \/ FoldResults
    \/ FinishTurn

Spec == Init /\ [][Next]_vars

\* ---------------------------------------------------- the parser on its own
\* The image stores the parser reads: uploads and tool images, of every
\* length a conversation can reach.
ParseStores ==
    {[k \in 1..n |-> IF k % 2 = 1 THEN (k + 1) \div 2 ELSE 10 + k \div 2] :
        n \in 0..(MaxImages + MaxCalls)}

\* agent_loop has the reply r in hand and is about to parse it.
InitParse ==
    /\ DEBUG = FALSE
    /\ \E tool_list \in InitialTools :
          /\ tools = ToolHandler_init(tool_list)
          /\ latest = Ids(ToolHandler_init(tool_list))
    /\ images \in ParseStores
    /\ images0 = images
    /\ messages0 = add_user_message(<<>>, images, "hello")
    /\ response \in Replies
    /\ messages = assistant_message(messages0, response)
    /\ pc = "parsing"
    /\ tool_calls = <<>>
    /\ info = NoInfo
    /\ i = 0
    /\ tool_results = <<>>
    /\ result = NoResult
    /\ invoked = <<>>
    /\ started = <<>>
    /\ last_add = NoAdd

NextParse == ExtractInfo

SpecParse == InitParse /\ [][NextParse]_vars

\* ====================================================================
\* Properties
\* ====================================================================
\* handle_tool was entered with the batch tool_calls ...
Dispatched == pc \in {"dispatching", "done"} /\ tool_calls # <<>>

\* ... and has returned tool_results,
HandleToolReturned == Dispatched /\ i > Len(tool_calls)

\* ... or has raised out of its loop.
HandleToolRaised == Dispatched /\ pc = "done" /\ result.at = "handle_tool"

BatchNames == {tool_calls[k].name : k \in 1..Len(tool_calls)}

AllRegistered == BatchNames \subseteq DOMAIN tools

Failed(out) == out.k \in {"Exception", "BaseException"}

\* The last call of the batch that names n.
LastCall(n) ==
    CHOOSE k \in 1..Len(tool_calls) :
        /\ tool_calls[k].name = n
        /\ \A j \in (k + 1)..Len(tool_calls) : tool_calls[j].name # n

\* Every call of the batch was invoked, in the order of the list.
AllInvoked ==
    /\ Len(invoked) = Len(tool_calls)
    /\ \A k \in 1..Len(invoked) :
          invoked[k].name = tool_calls[k].name /\ invoked[k].args = tool_calls[k].args

\* C1 as claimed: with DEBUG off and every name of the batch registered, a
\* tool that raises does not abort the batch: handle_tool does not raise,
\* every call is invoked, the entry of every call that failed is the sentinel
\* and the entry of every call that did not fail is its output.
C1_AsClaimed ==
    (~DEBUG /\ Dispatched /\ AllRegistered) =>
        /\ ~HandleToolRaised
        /\ HandleToolReturned =>
              /\ AllInvoked
              /\ \A k \in 1..Len(invoked) :
                    DictGet(tool_results, invoked[k].name) =
                        IF Failed(invoked[k].out) THEN Sentinel ELSE invoked[k].out

\* C1, amended: with DEBUG off and every name of the batch registered, as long
\* as no tool raises a BaseException that is no Exception, handle_tool does not
\* raise, every call made so far was invoked in list order, and once it has
\* returned every call was invoked and the entry of each tool name is the
\* outcome of the last call under that name: the sentinel when that call
\* raised, its output otherwise.
C1_FailureIsolation ==
    (/\ ~DEBUG
     /\ Dispatched
     /\ AllRegistered
     /\ \A k \in 1..Len(invoked) : invoked[k].out.k # "BaseException") =>
        /\ ~HandleToolRaised
        /\ Len(invoked) = i - 1
        /\ HandleToolReturned =>
              /\ AllInvoked
              /\ \A n \in BatchNames :
                    DictGet(tool_results, n) =
                        IF Failed(invoked[LastCall(n)].out)
                        THEN Sentinel
                        ELSE invoked[LastCall(n)].out

\* A batch [X fails, Y succeeds] of two tools has been dispatched with DEBUG
\* off.
C1_Witness ==
    /\ ~DEBUG
    /\ HandleToolReturned
    /\ Len(invoked) = 2
    /\ invoked[1].name # invoked[2].name
    /\ invoked[1].out.k = "Exception"
    /\ invoked[2].out.k = "str"
    /\ DictGet(tool_results, invoked[1].name) = Sentinel

\* C2: when handle_tool has returned, the keys of the result are the distinct
\* tool names of the batch, plus "AUA" exactly when a dispatched tool has
\* tool_type "AUA".
C2_ResultKeys ==
    HandleToolReturned =>
        DictKeys(tool_results) =
            BatchNames \cup
                (IF \E n \in BatchNames : tools[n].tool_type = "AUA" THEN {"AUA"} ELSE {})

\* A batch of two names, one of them an AUA tool whose run failed, has
\* returned.
C2_Witness ==
    /\ HandleToolReturned
    /\ Cardinality(BatchNames) = 2
    /\ \E k \in 1..Len(invoked) :
          tools[invoked[k].name].tool_type = "AUA" /\ invoked[k].out.k = "Exception"
    /\ "AUA" \in DictKeys(tool_results)

\* The objects of an add_tool argument are all tools.
AllBaseTools(arg) == \A k \in 1..Len(arg.items) : arg.items[k].cls = "BaseTool"

ItemNames(arg) == {arg.items[k].name : k \in 1..Len(arg.items)}

\* The last object of the argument under the name n.
LastItem(arg, n) ==
    arg.items[CHOOSE k \in 1..Len(arg.items) :
                 /\ arg.items[k].name = n
                 /\ \A j \in (k + 1)..Len(arg.items) : arg.items[j].name # n]

\* C3: add_tool with tools only, some of them under names already registered,
\* raises nothing (it warns exactly when a name was registered before) and
\* overwrites: afterwards every name of the argument maps to the last tool
\* given under it and the other entries are as before; every key of the
\* registry is the name of its tool; and every later invocation through
\* call_tool runs the implementation registered last under the name.
C3_LastWriteWins ==
    /\ [](\A n \in DOMAIN tools : tools[n].name = n)
    /\ [](\A k \in 1..Len(invoked) : invoked[k].id = latest[invoked[k].name])
    /\ [][\A arg \in AddArgs :
            (AddToolWith(arg) /\ AllBaseTools(arg)) =>
                /\ last_add'.raised = ""
                /\ (last_add'.warns > 0) <=> (ItemNames(arg) \cap DOMAIN tools # {})
                /\ DOMAIN tools' = DOMAIN tools \cup ItemNames(arg)
                /\ \A n \in DOMAIN tools' :
                      tools'[n] = IF n \in ItemNames(arg) THEN LastItem(arg, n) ELSE tools[n]
         ]_vars

\* add_tool has just replaced the tool registered under "a" and warned.
C3_Witness ==
    /\ last_add.called
    /\ last_add.raised = ""
    /\ last_add.warns > 0
    /\ "a" \in DOMAIN tools
    /\ tools["a"].id = 2
    /\ latest["a"] = 2

\* extract_info is over: it returned (tool_calls, info) ...
ParseReturned ==
    pc \in {"dispatching", "done"} /\ result.at \notin {"get_assistant_response", "extract_info"}

\* ... or it raised.
ParseRaised == pc = "done" /\ result.at = "extract_info"

\* The reply is a JSON object with a tool_calls list whose entries all have
\* the shape {"name": ..., "args": {...}}.
WellFormed ==
    /\ response.kind = "object"
    /\ "tool_calls" \in response.keys
    /\ \A c \in 1..Len(response.tool_calls) : response.tool_calls[c].has_args

\* The argument values of the reply, by call and position.
ArgPlaces ==
    {p \in (1..Len(response.tool_calls)) \X (1..2) :
        p[2] <= Len(response.tool_calls[p[1]].args)}

Written(p) == response.tool_calls[p[1]].args[p[2]]

IsPlaceholder(a) == a.t \in {"dollar", "angle", "angle_tail"}

\* The reply holds no image placeholder, in neither form.
NoPlaceholders ==
    /\ \A p \in ArgPlaces : ~IsPlaceholder(Written(p))
    /\ ~IsPlaceholder(response.audio)

\* C4: on a well-formed reply without image placeholders extract_info
\* returns, the tool_calls entries are those of the reply, unchanged and in
\* their order, and info is the reply's object without the tool_calls key.
C4_LeftInverse ==
    (pc # "parsing" /\ WellFormed /\ NoPlaceholders) =>
        /\ ParseReturned
        /\ tool_calls = response.tool_calls
        /\ info = Info(response.keys \ {"tool_calls"}, response.audio)

\* Two different calls with arguments, and an audio field, have been parsed.
C4_Witness ==
    /\ WellFormed
    /\ NoPlaceholders
    /\ ParseReturned
    /\ Len(tool_calls) = 2
    /\ tool_calls[1].name # tool_calls[2].name
    /\ tool_calls[1].args # <<>>
    /\ tool_calls[1].args # tool_calls[2].args
    /\ info.keys = {"audio"}

\* C5: on a reply whose calls all have args, an argument written "$image_N$"
\* is, when extract_info returns, the handle at position N of the image store
\* (N < L); with an N >= L among them extract_info raises IndexError and
\* returns nothing; and it returns whenever every placeholder's index is in
\* range.
C5_ImageIndex ==
    (pc # "parsing" /\ WellFormed) =>
        /\ (\E p \in ArgPlaces : Written(p).t = "dollar" /\ Written(p).n >= Len(images))
              => (ParseRaised /\ result.raised = "IndexError")
        /\ ParseReturned =>
              \A p \in ArgPlaces :
                  Written(p).t = "dollar" =>
                      /\ Written(p).n < Len(images)
                      /\ tool_calls[p[1]].args[p[2]] = Image(images[Written(p).n + 1])
        /\ (\A p \in ArgPlaces : IsPlaceholder(Written(p)) => Written(p).n < Len(images))
              => ParseReturned

\* "$image_2$" has been resolved against a store of three images, and
\* "$image_0$" beside it.
C5_Witness ==
    /\ ParseReturned
    /\ Len(images) = 3
    /\ \E p \in ArgPlaces :
          /\ Written(p) = Atom("dollar", 2)
          /\ tool_calls[p[1]].args[p[2]] = Image(images[3])
    /\ \E p \in ArgPlaces :
          /\ Written(p) = Atom("dollar", 0)
          /\ tool_calls[p[1]].args[p[2]] = Image(images[1])

\* C6: the step of extract_info leaves the image store and the registry as
\* they are, whatever the reply; on a reply that is no JSON it raises
\* ValueError.
C6_ReadOnly ==
    [][pc = "parsing" =>
          /\ images' = images
          /\ tools' = tools
          /\ response.kind = "garbage" =>
                (pc' = "done" /\ result'.at = "extract_info" /\ result'.raised = "ValueError")
      ]_vars

\* extract_info has raised ValueError on a reply that is no JSON, with images
\* in the store and tools in the registry.
C6_Witness ==
    /\ ParseRaised
    /\ result.raised = "ValueError"
    /\ response.kind = "garbage"
    /\ Len(images) >= 2
    /\ images = images0
    /\ DOMAIN tools # {}

\* agent_loop has returned its 5-tuple.
TurnReturned == pc = "done" /\ result.raised = ""

\* handle_tool has returned and agent_loop has folded the results (the return
\* itself may still have raised on a missing audio field).
FoldDone == pc = "done" /\ tool_calls # <<>> /\ result.at \in {"", "return"}

LastMessage == messages[Len(messages)]

\* C7: a turn with a non-empty tool_calls list that returns has added exactly
\* two messages to the transcript, however many calls there were: the
\* assistant message with the raw reply, then one user message with the tool
\* results; the messages before are as they were.
C7_TwoMessages ==
    (TurnReturned /\ tool_calls # <<>>) =>
        /\ Len(messages) = Len(messages0) + 2
        /\ SubSeq(messages, 1, Len(messages0)) = messages0
        /\ messages[Len(messages0) + 1] = Message("assistant", response)
        /\ LastMessage.role = "user"
        /\ LastMessage.content.body = ToolResultsText(result.text)

\* A turn with two tool calls has returned, with an image in the store.
C7_Witness ==
    /\ TurnReturned
    /\ Len(tool_calls) = 2
    /\ Len(invoked) = 2
    /\ messages0 # <<>>
    /\ images # <<>>
    /\ Len(messages) = Len(messages0) + 2

\* The images of the ImageOutput results, in the order of the dict.
RECURSIVE ImagesOf(_)
ImagesOf(results) ==
    IF results = <<>> THEN <<>>
    ELSE (IF Head(results).val.k = "image" THEN <<Head(results).val.image>> ELSE <<>>)
             \o ImagesOf(Tail(results))

ImageItems == {k \in 1..Len(tool_results) : tool_results[k].val.k = "image"}

\* C8: until the fold the image store is the one the turn began with; the
\* fold appends the image of every ImageOutput result at the end, in the
\* order of the results, and nothing else, records the output in the display
\* map under the tool's name, and the text map (returned, and sent in the
\* tool-results message) holds "Image shown to user" under that name.
C8_ImageOutputs ==
    /\ (pc \in {"parsing", "dispatching"} \/ (pc = "done" /\ ~FoldDone)) => images = images0
    /\ FoldDone =>
          /\ images = images0 \o ImagesOf(tool_results)
          /\ Len(images) = Len(images0) + Cardinality(ImageItems)
          /\ \A k \in ImageItems :
                /\ DictGet(LastMessage.content.body.tool_results.json, tool_results[k].key)
                      = "Image shown to user"
                /\ TurnReturned =>
                      /\ DictGet(result.display, tool_results[k].key) = tool_results[k].val
                      /\ DictGet(result.text, tool_results[k].key) = "Image shown to user"
          /\ TurnReturned =>
                DictKeys(result.display) = {tool_results[k].key : k \in ImageItems}

\* Two tools have returned an ImageOutput and a third result is no image;
\* the store held an upload before.
C8_Witness ==
    /\ FoldDone
    /\ TurnReturned
    /\ images0 # <<>>
    /\ Cardinality(ImageItems) = 2
    /\ Len(tool_results) = 3
    /\ Len(images) = Len(images0) + 2

\* C9: when the parsed tool_calls list is empty agent_loop stops there: no
\* tool is invoked, the transcript has gained the assistant message only, the
\* image store is as before, and agent_loop returns ({}, {}, False,
\* info["audio"], {}) (a KeyError at that return when info has no audio).
C9_ShortCircuit ==
    (pc = "done" /\ WellFormed /\ response.tool_calls = <<>>) =>
        /\ invoked = <<>>
        /\ tool_results = <<>>
        /\ images = images0
        /\ messages = Append(messages0, Message("assistant", response))
        /\ IF "audio" \in response.keys
           THEN result = Returned(<<>>, <<>>, FALSE, info.audio, <<>>)
           ELSE result.raised = "KeyError" /\ result.at = "return"

\* A turn on a reply with an empty tool_calls list and an audio field has
\* returned, with tools registered and an image in the store.
C9_Witness ==
    /\ TurnReturned
    /\ WellFormed
    /\ response.tool_calls = <<>>
    /\ result.audio = response.audio
    /\ DOMAIN tools # {}
    /\ images # <<>>
    /\ Len(messages) = Len(messages0) + 1

\* C10 as claimed: the user message appended after the fold has as content
\* the structure {"tool_results": <text map>} and nothing else, whatever the
\* image store.
C10_AsClaimed ==
    FoldDone =>
        /\ LastMessage.role = "user"
        /\ LastMessage.content.uploaded = <<>>
        /\ TurnReturned => LastMessage.content.body = ToolResultsText(result.text)

\* C10, amended: the user message appended after the fold has as content the
\* structure {"tool_results": <text map>}, alone when the image store is empty
\* after the fold, and otherwise followed by the list image_0 .. image_(L-1)
\* of the whole store (the images this turn appended among them) and the hint
\* on passing an image.
C10_ToolResultsMessage ==
    FoldDone =>
        /\ LastMessage.role = "user"
        /\ LastMessage.content.uploaded = [k \in 1..Len(images) |-> k - 1]
        /\ TurnReturned => LastMessage.content.body = ToolResultsText(result.text)

\* The tool results went out with a store of one upload and one image of
\* this turn.
C10_Witness ==
    /\ FoldDone
    /\ Len(images0) = 1
    /\ Len(images) = 2
    /\ LastMessage.content.uploaded = <<0, 1>>

\* The text map of the tool-results message.
SentText == LastMessage.content.body.tool_results.json

\* C11 as claimed: the fold skips the "AUA" entry of the dispatch result: the
\* text map sent to the model, and the one returned, have as keys the names
\* of the dispatched tools only, never "AUA".
C11_AsClaimed ==
    FoldDone =>
        /\ DictKeys(SentText) = BatchNames
        /\ "AUA" \notin DictKeys(SentText)
        /\ TurnReturned => DictKeys(result.text) = BatchNames

\* A batch with an AUA tool has been folded, and the text map sent to the
\* model holds "AUA": "True" beside the tool's own entry.
C11_Witness ==
    /\ FoldDone
    /\ TurnReturned
    /\ \E n \in BatchNames : tools[n].tool_type = "AUA"
    /\ DictKeys(SentText) = BatchNames \cup {"AUA"}
    /\ DictGet(SentText, "AUA") = "True"
    /\ DictGet(result.text, "AUA") = "True"

\* What extract_info raises on a reply that is no JSON.
MalformedError == extract_info(<<>>, Reply("garbage", {}, <<>>, NoAudio)).raised

\* The reply is a JSON object without the tool_calls key.
MissingToolCalls == response.kind = "object" /\ "tool_calls" \notin response.keys

\* C12 as claimed: on a reply that is a JSON object without tool_calls,
\* extract_info raises the error it raises on a reply that is no JSON.
C12_AsClaimed ==
    (pc # "parsing" /\ MissingToolCalls) =>
        (ParseRaised /\ result.raised = MalformedError)

\* extract_info has raised KeyError on a JSON object without tool_calls.
C12_Witness ==
    /\ ParseRaised
    /\ MissingToolCalls
    /\ MalformedError = "ValueError"
    /\ result.raised = "KeyError"

\* The model gave a reply (a first choice) in this turn.
Replied == pc \in {"parsing", "dispatching", "awaiting", "done"} /\ response # NoReply

\* The reply names, in a call's arguments, an image the store does not hold.
OutOfRange ==
    /\ response.kind = "object"
    /\ "tool_calls" \in response.keys
    /\ \E p \in ArgPlaces : IsPlaceholder(Written(p)) /\ Written(p).n >= Len(images0)

\* C13: once the model has given a reply, the transcript is the one the turn
\* began with followed by the assistant message holding the raw reply, and it
\* is exactly that while the reply is parsed; a reply that is no JSON, that
\* lacks tool_calls or that names an image out of range makes extract_info
\* raise; and whenever extract_info raises, the error reaches the caller with
\* that one new message in the transcript, the image store as the turn found
\* it, and no tool invocation begun.
C13_AppendBeforeParse ==
    /\ Replied =>
          /\ Len(messages) > Len(messages0)
          /\ SubSeq(messages, 1, Len(messages0)) = messages0
          /\ messages[Len(messages0) + 1] = Message("assistant", response)
    /\ pc = "parsing" => messages = Append(messages0, Message("assistant", response))
    /\ (Replied /\ pc # "parsing"
           /\ (response.kind = "garbage" \/ MissingToolCalls \/ OutOfRange)) => ParseRaised
    /\ ParseRaised =>
          /\ result.raised \in {"ValueError", "TypeError", "KeyError", "IndexError"}
          /\ messages = Append(messages0, Message("assistant", response))
          /\ images = images0
          /\ started = <<>>
          /\ invoked = <<>>

\* A reply naming "$image_0$" was parsed against an empty image store, with
\* a tool registered: IndexError, and the reply is in the transcript.
C13_Witness ==
    /\ ParseRaised
    /\ OutOfRange
    /\ result.raised = "IndexError"
    /\ DOMAIN tools # {}
    /\ Len(messages) = Len(messages0) + 1
    /\ LastMessage = Message("assistant", response)

\* The model gave nothing, or a completion without choices.
NoChoices == pc = "done" /\ response = NoReply

\* C14: when the model gives no choice, agent_loop raises RuntimeError out of
\* get_assistant_response (and in no other case does it raise from there),
\* the transcript and the image store are as the turn found them, and no
\* tool invocation has begun.
C14_NoResponse ==
    /\ NoChoices <=> (pc = "done" /\ result.at = "get_assistant_response")
    /\ NoChoices =>
          /\ result = Raised("RuntimeError", "get_assistant_response")
          /\ messages = messages0
          /\ images = images0
          /\ started = <<>>
          /\ invoked = <<>>
          /\ tool_results = <<>>

\* A turn has failed for want of a choice, with a user message in the
\* transcript, an image in the store and a tool registered.
C14_Witness ==
    /\ NoChoices
    /\ result.raised = "RuntimeError"
    /\ messages # <<>>
    /\ LastMessage.role = "user"
    /\ images # <<>>
    /\ DOMAIN tools # {}

\* C15: the invocations of a batch begin in the order of the call list, each
\* call at most once; at most one invocation is under way, and it is under
\* way exactly while handle_tool awaits it; the invocation of a call begins
\* only when those of all the calls before it have ended (with an output or
\* an exception); and when handle_tool returns every call's invocation has
\* begun and ended.
C15_OneAtATime ==
    /\ started = [k \in 1..Len(started) |-> k]
    /\ Len(started) <= Len(tool_calls)
    /\ Len(invoked) <= Len(started)
    /\ Len(started) <= Len(invoked) + 1
    /\ (Len(started) = Len(invoked) + 1) <=> (pc = "awaiting")
    /\ \A k \in 1..Len(invoked) :
          invoked[k].name = tool_calls[k].name /\ invoked[k].args = tool_calls[k].args
    /\ HandleToolReturned =>
          (Len(started) = Len(tool_calls) /\ Len(invoked) = Len(tool_calls))

\* The second call of a batch is under way after the first one has failed.
C15_Witness ==
    /\ pc = "awaiting"
    /\ started = <<1, 2>>
    /\ Len(invoked) = 1
    /\ invoked[1].out.k = "Exception"
    /\ i = 2

\* C16: with DEBUG on, once an invocation has raised, handle_tool has raised
\* that exception, and so has agent_loop; the call that raised is the last
\* one invoked, no later call's invocation has begun, and the transcript
\* holds the assistant message as its only new message, with the image store
\* as the turn found it.
C16_DebugReraise ==
    (DEBUG /\ \E k \in 1..Len(invoked) : Failed(invoked[k].out)) =>
        /\ pc = "done"
        /\ Failed(invoked[Len(invoked)].out)
        /\ \A k \in 1..(Len(invoked) - 1) : ~Failed(invoked[k].out)
        /\ result = Raised(invoked[Len(invoked)].out.k, "handle_tool")
        /\ Len(started) = Len(invoked)
        /\ messages = Append(messages0, Message("assistant", response))
        /\ images = images0

\* With DEBUG on, the first call of a batch of two has raised an Exception
\* and the second was never invoked.
C16_Witness ==
    /\ DEBUG
    /\ pc = "done"
    /\ Len(tool_calls) = 2
    /\ Len(invoked) = 1
    /\ started = <<1>>
    /\ invoked[1].out.k = "Exception"
    /\ result.raised = "Exception"

IsPrefix(s, t) == Len(s) <= Len(t) /\ SubSeq(t, 1, Len(s)) = s

\* C17: in every step of a conversation (the caller's operations and the
\* steps of a turn, failing turns among them) the transcript and the image
\* store keep what they held, in place, and at most grow at the end, and the
\* registry keeps every name it had.
C17_AppendOnly ==
    [][/\ IsPrefix(messages, messages')
       /\ IsPrefix(images, images')
       /\ DOMAIN tools \subseteq DOMAIN tools'
      ]_vars

\* A turn that ended with an error at its return has added two messages
\* and an image to a transcript and a store that were not empty, with two
\* names in the registry.
C17_Witness ==
    /\ pc = "done"
    /\ result.raised = "KeyError"
    /\ result.at = "return"
    /\ messages0 # <<>>
    /\ images0 # <<>>
    /\ Len(messages) = Len(messages0) + 2
    /\ Len(images) = Len(images0) + 1
    /\ DOMAIN tools = Names

\* C18: in a turn whose reply has a non-empty tool_calls list and no audio
\* field, nothing is raised for the missing field while the batch is
\* dispatched; when handle_tool has returned, agent_loop raises KeyError at
\* its return, and by then every call of the batch was invoked, the images
\* of the ImageOutput results are in the image store, and the transcript has
\* gained two messages, the assistant's and the tool results.
C18_LateKeyError ==
    (/\ pc \in {"dispatching", "awaiting", "done"}
     /\ tool_calls # <<>>
     /\ "audio" \notin info.keys) =>
        /\ pc \in {"dispatching", "awaiting"} => result = NoResult
        /\ pc = "done" => result.at \in {"handle_tool", "return"}
        /\ (pc = "done" /\ result.at = "return") =>
              /\ result = Raised("KeyError", "return")
              /\ AllInvoked
              /\ images = images0 \o ImagesOf(tool_results)
              /\ Len(messages) = Len(messages0) + 2
              /\ messages[Len(messages0) + 1] = Message("assistant", response)
              /\ LastMessage.role = "user"
              /\ LastMessage.content.body = ToolResultsText(fold(images0, tool_results).text)

\* A batch of two calls, one of which returned an image, was dispatched and
\* folded, and the return raised KeyError.
C18_Witness ==
    /\ pc = "done"
    /\ "audio" \notin info.keys
    /\ result = Raised("KeyError", "return")
    /\ Len(invoked) = 2
    /\ Len(images) = Len(images0) + 1
    /\ Len(messages) = Len(messages0) + 2

\* The calls of the batch that name no registered tool.
Unregistered == {k \in 1..Len(tool_calls) : tool_calls[k].name \notin DOMAIN tools}

FirstUnregistered == CHOOSE k \in Unregistered : \A j \in Unregistered : k <= j

\* The invocation left handle_tool as an exception.
RaisedThrough(out) == out.k = "BaseException" \/ (DEBUG /\ out.k = "Exception")

\* C19: when call u is the first of a batch to name an unregistered tool,
\* with DEBUG on or off, neither call u nor any later call is ever invoked
\* and no entry is recorded under that name; handle_tool never returns, so
\* agent_loop appends no tool-results message and folds nothing into the
\* image store; and unless an earlier call's exception left handle_tool
\* first, the turn ends with the calls before u invoked and the KeyError of
\* the lookup raised to the caller, without any of their results.
C19_UnknownTool ==
    (pc \in {"dispatching", "awaiting", "done"} /\ Unregistered # {}) =>
        /\ Len(started) < FirstUnregistered
        /\ i <= FirstUnregistered
        /\ tool_calls[FirstUnregistered].name \notin DictKeys(tool_results)
        /\ messages = Append(messages0, Message("assistant", response))
        /\ images = images0
        /\ pc = "done" =>
              IF \E k \in 1..Len(invoked) : RaisedThrough(invoked[k].out)
              THEN result = Raised(invoked[Len(invoked)].out.k, "handle_tool")
              ELSE /\ result = Raised("KeyError", "handle_tool")
                   /\ Len(invoked) = FirstUnregistered - 1

\* With DEBUG off, the first call of a batch ran and returned, and the
\* second named an unregistered tool: KeyError, and nothing in the transcript
\* after the assistant message.
C19_Witness ==
    /\ ~DEBUG
    /\ pc = "done"
    /\ result = Raised("KeyError", "handle_tool")
    /\ FirstUnregistered = 2
    /\ Len(invoked) = 1
    /\ invoked[1].out.k = "image"
    /\ DictKeys(tool_results) = {invoked[1].name}
    /\ LastMessage.role = "assistant"

CountKey(d, key) == Cardinality({k \in 1..Len(d) : d[k].key = key})

\* The names of the batch whose last call returned an ImageOutput.
LastIsImage == {n \in BatchNames : invoked[LastCall(n)].out.k = "image"}

\* C20: when handle_tool returns, every call of the batch was invoked once,
\* in the order of the list, calls under one name among them, and the result
\* has one entry per name, holding the outcome of the last call under that
\* name (its output, or the sentinel when it raised); the fold then puts one
\* entry per name into the text map, one into the display map for the names
\* whose last call returned an ImageOutput and none for the others, and
\* appends one image for each of those names and no other.
C20_LastResultPerName ==
    /\ HandleToolReturned =>
          /\ AllInvoked
          /\ \A n \in BatchNames :
                /\ CountKey(tool_results, n) = 1
                /\ DictGet(tool_results, n) =
                      IF Failed(invoked[LastCall(n)].out)
                      THEN Sentinel
                      ELSE invoked[LastCall(n)].out
    /\ FoldDone =>
          /\ Len(images) = Len(images0) + Cardinality(LastIsImage)
          /\ \A n \in BatchNames : CountKey(SentText, n) = 1
          /\ TurnReturned =>
                \A n \in BatchNames :
                    /\ CountKey(result.text, n) = 1
                    /\ CountKey(result.display, n) = IF n \in LastIsImage THEN 1 ELSE 0

\* One tool was called twice in a batch: the first call returned an
\* ImageOutput, the second a text; the result holds the text and no image
\* reached the store.
C20_Witness ==
    /\ FoldDone
    /\ TurnReturned
    /\ Len(tool_calls) = 2
    /\ tool_calls[1].name = tool_calls[2].name
    /\ Len(invoked) = 2
    /\ invoked[1].out.k = "image"
    /\ invoked[2].out.k = "str"
    /\ images = images0
    /\ result.display = <<>>

====
